---------------------------- MODULE Spec2Model ----------------------------
(***************************************************************************)
(* Model of src/index.js: the async IIFE that resolves the per-user       *)
(* Startup directory, decodes the embedded base64 file name, renames      *)
(* cwd/main/payload.node to that place, spawns it detached and exits.     *)
(*                                                                         *)
(* JavaScript strings are sequences of one-character strings.  A code     *)
(* point outside printable ASCII is written "U+<n>".  The value           *)
(* `undefined` is the one-element sequence Undefined.                     *)
(***************************************************************************)
EXTENDS Integers, Sequences, FiniteSets, TLC

(***************************************************************************)
(* Bounds of the model.                                                    *)
(***************************************************************************)
\* longest identifier tried in place of the embedded one (SpecDecode)
MaxIdLen == 4

(***************************************************************************)
(* String constants of the program.                                        *)
(***************************************************************************)
Undefined == <<"undefined">>

\* src/index.js:345-359, the argument of the IIFE: "RGlzY29yZC5leGU="
EmbeddedIdentifier == <<"R", "G", "l", "z", "Y", "2", "9", "y", "Z", "C", "5", "l", "e", "G", "U", "=">>

\* src/index.js:146, the literal arguments of path.join after APPDATA
Microsoft == <<"M", "i", "c", "r", "o", "s", "o", "f", "t">>
Windows == <<"W", "i", "n", "d", "o", "w", "s">>
StartMenu == <<"S", "t", "a", "r", "t", " ", "M", "e", "n", "u">>
Programs == <<"P", "r", "o", "g", "r", "a", "m", "s">>
Startup == <<"S", "t", "a", "r", "t", "u", "p">>

FixedSegments == <<Microsoft, Windows, StartMenu, Programs, Startup>>

\* src/index.js:151, the literal part of the template `${process.cwd()}/main/payload.node`
SourceSuffix == <<"/", "m", "a", "i", "n", "/", "p", "a", "y", "l", "o", "a", "d", ".", "n", "o", "d", "e">>

(***************************************************************************)
(* Character tables.                                                        *)
(***************************************************************************)
\* the base64 alphabet, value v at index v + 1
B64Alphabet == <<"A", "B", "C", "D", "E", "F", "G", "H", "I", "J", "K", "L", "M", "N", "O", "P", "Q", "R", "S", "T", "U", "V", "W", "X", "Y", "Z", "a", "b", "c", "d", "e", "f", "g", "h", "i", "j", "k", "l", "m", "n", "o", "p", "q", "r", "s", "t", "u", "v", "w", "x", "y", "z", "0", "1", "2", "3", "4", "5", "6", "7", "8", "9", "+", "/">>

\* code points 32..126, code point c at index c - 31 (the grave accent, which
\* a TLA+ string cannot hold, is written "U+96")
Printable == <<" ", "!", "\"", "#", "$", "%", "&", "'", "(", ")", "*", "+", ",", "-", ".", "/", "0", "1", "2", "3", "4", "5", "6", "7", "8", "9", ":", ";", "<", "=", ">", "?", "@", "A", "B", "C", "D", "E", "F", "G", "H", "I", "J", "K", "L", "M", "N", "O", "P", "Q", "R", "S", "T", "U", "V", "W", "X", "Y", "Z", "[", "\\", "]", "^", "_", "U+96", "a", "b", "c", "d", "e", "f", "g", "h", "i", "j", "k", "l", "m", "n", "o", "p", "q", "r", "s", "t", "u", "v", "w", "x", "y", "z", "{", "|", "}", "~">>

\* String.fromCodePoint for one code point
Chr(cp) == IF cp >= 32 /\ cp <= 126 THEN Printable[cp - 31] ELSE "U+" \o ToString(cp)

Letters == {B64Alphabet[i] : i \in 1..52}

(***************************************************************************)
(* Buffer.from(_, "base64"): Node's decoder.  A character outside the      *)
(* alphabet is skipped, the first "=" ends the input, and every valid      *)
(* character after the first of its group of four completes one byte.      *)
(* "-" and "_" (base64url) stand for 62 and 63.                             *)
(***************************************************************************)
unbase64(c) ==
    IF \E i \in 1..64 : B64Alphabet[i] = c
    THEN (CHOOSE i \in 1..64 : B64Alphabet[i] = c) - 1
    ELSE IF c = "-" THEN 62
    ELSE IF c = "_" THEN 63
    ELSE -1

\* the byte completed by the valid character of value lo at place k (1..3) of
\* its group, hi being the value of the valid character before it
GroupByte(k, hi, lo) ==
    IF k = 1 THEN (hi % 64) * 4 + (lo \div 16)
    ELSE IF k = 2 THEN (hi % 16) * 16 + (lo \div 4)
    ELSE (hi % 4) * 64 + lo

\* the bytes decoded from src: dec[i, k, hi] is what the characters from the
\* i-th on give, k valid characters of the current group having been read,
\* the last of value hi
Base64Decode(src) ==
    LET dec[x \in Seq(STRING), i \in Nat, k \in 0..3, hi \in 0..63] ==
            IF i > Len(x) THEN <<>>
            ELSE IF x[i] = "=" THEN <<>>
            ELSE IF unbase64(x[i]) < 0 THEN dec[x, i + 1, k, hi]
            ELSE IF k = 0 THEN dec[x, i + 1, 1, unbase64(x[i])]
            ELSE <<GroupByte(k, hi, unbase64(x[i]))>>
                     \o dec[x, i + 1, (k + 1) % 4, unbase64(x[i])]
    IN  dec[src, 1, 0, 0]

\* standard base64 (RFC 4648): groups of four characters of the alphabet, the
\* last group padded with one or two "="
WellFormedBase64(src) ==
    /\ Len(src) % 4 = 0
    /\ \A i \in 1..Len(src) :
          \/ \E v \in 1..64 : B64Alphabet[v] = src[i]
          \/ /\ src[i] = "="
             /\ i >= Len(src) - 1
             /\ (i < Len(src) => src[i + 1] = "=")

\* a strict decoder: an identifier that is not well formed is an error
StrictBufferFromBase64(src) ==
    IF ~WellFormedBase64(src)
    THEN [error |-> "DecodeError", bytes |-> <<>>]
    ELSE [error |-> "none", bytes |-> Base64Decode(src)]

\* Buffer.from(src, "base64"): never an error
BufferFromBase64(src) == [error |-> "none", bytes |-> Base64Decode(src)]

(***************************************************************************)
(* buf.toString("utf-8"): the WHATWG UTF-8 decoder; an ill-formed sequence *)
(* becomes U+FFFD (65533) and the offending byte is read again.            *)
(***************************************************************************)
Utf8ToStringImpl(bytes) ==
    LET dec[b \in Seq(Nat), i \in Nat, needed \in 0..3, seen \in 0..3, cp \in Nat,
            lower \in Nat, upper \in Nat] ==
            IF i > Len(b) THEN (IF needed # 0 THEN <<Chr(65533)>> ELSE <<>>)
            ELSE IF needed = 0 THEN
                IF b[i] <= 127 THEN <<Chr(b[i])>> \o dec[b, i + 1, 0, 0, 0, 128, 191]
                ELSE IF b[i] >= 194 /\ b[i] <= 223
                    THEN dec[b, i + 1, 1, 0, b[i] % 32, 128, 191]
                ELSE IF b[i] >= 224 /\ b[i] <= 239
                    THEN dec[b, i + 1, 2, 0, b[i] % 16,
                             IF b[i] = 224 THEN 160 ELSE 128,
                             IF b[i] = 237 THEN 159 ELSE 191]
                ELSE IF b[i] >= 240 /\ b[i] <= 244
                    THEN dec[b, i + 1, 3, 0, b[i] % 8,
                             IF b[i] = 240 THEN 144 ELSE 128,
                             IF b[i] = 244 THEN 143 ELSE 191]
                ELSE <<Chr(65533)>> \o dec[b, i + 1, 0, 0, 0, 128, 191]
            ELSE IF b[i] < lower \/ b[i] > upper
                THEN <<Chr(65533)>> \o dec[b, i, 0, 0, 0, 128, 191]
            ELSE IF seen + 1 = needed
                THEN <<Chr(cp * 64 + (b[i] % 64))>> \o dec[b, i + 1, 0, 0, 0, 128, 191]
            ELSE dec[b, i + 1, needed, seen + 1, cp * 64 + (b[i] % 64), 128, 191]
    IN  dec[bytes, 1, 0, 0, 0, 128, 191]

\* buf.toString("utf16le"): two bytes a code unit, an odd last byte dropped
Utf16leToString(bytes) ==
    [k \in 1..(Len(bytes) \div 2) |-> Chr(bytes[2 * k - 1] + 256 * bytes[2 * k])]

Utf8ToString(bytes) == Utf8ToStringImpl(bytes)

(***************************************************************************)
(* node:path.  path.join validates every argument (a non-string throws     *)
(* ERR_INVALID_ARG_TYPE), joins the non-empty ones with the separator and  *)
(* normalizes the result.  UNC roots (two leading separators) are not      *)
(* modelled.                                                                *)
(***************************************************************************)
Sep(platform) == IF platform = "win32" THEN "\\" ELSE "/"

\* isPathSeparator (win32: both slashes) / isPosixPathSeparator
IsSep(platform, c) == c = "/" \/ (platform = "win32" /\ c = "\\")

\* the segments of str between separators, empty ones included: from[i] is
\* the segments of the characters from the i-th on
Split(platform, str) ==
    LET split[x \in Seq(STRING)] ==
            LET more(i) == \E j \in i..Len(x) : IsSep(platform, x[j])
                next(i) == CHOOSE j \in i..Len(x) :
                               /\ IsSep(platform, x[j])
                               /\ \A q \in i..(j - 1) : ~IsSep(platform, x[q])
                from[i \in Nat] ==
                    IF ~more(i) THEN <<SubSeq(x, i, Len(x))>>
                    ELSE <<SubSeq(x, i, next(i) - 1)>> \o from[next(i) + 1]
            IN  from[1]
    IN  split[str]

\* normalizeString: "" and "." are dropped, ".." removes the segment before
\* it, or stays when there is none and the path is relative; norm[i, res] is
\* the result for the segments from the i-th on, res being kept so far
NormalizeSegs(segs, allowAboveRoot) ==
    LET norm[x \in Seq(Seq(STRING)), i \in Nat, res \in Seq(Seq(STRING))] ==
            IF i > Len(x) THEN res
            ELSE IF x[i] = <<>> \/ x[i] = <<".">> THEN norm[x, i + 1, res]
            ELSE IF x[i] = <<".", ".">> THEN
                IF Len(res) > 0 /\ res[Len(res)] # <<".", ".">>
                    THEN norm[x, i + 1, SubSeq(res, 1, Len(res) - 1)]
                ELSE IF allowAboveRoot THEN norm[x, i + 1, Append(res, x[i])]
                ELSE norm[x, i + 1, res]
            ELSE norm[x, i + 1, Append(res, x[i])]
    IN  norm[segs, 1, <<>>]

\* the segments joined by sep
JoinSegs(segs, sep) ==
    LET from[x \in Seq(Seq(STRING)), i \in Nat] ==
            IF i > Len(x) THEN <<>>
            ELSE IF i = Len(x) THEN x[i]
            ELSE x[i] \o <<sep>> \o from[x, i + 1]
    IN  from[segs, 1]

\* the length of the root of str: "C:\" 3, "C:" 2, a leading separator 1, else 0
RootEnd(platform, str) ==
    IF Len(str) = 0 THEN 0
    ELSE IF IsSep(platform, str[1]) THEN 1
    ELSE IF platform = "win32" /\ Len(str) >= 2 /\ str[1] \in Letters /\ str[2] = ":"
        THEN (IF Len(str) >= 3 /\ IsSep(platform, str[3]) THEN 3 ELSE 2)
    ELSE 0

IsAbsolute(platform, str) == RootEnd(platform, str) \in {1, 3}

\* the drive of a win32 path ("C:"), or the empty string
Device(platform, str) ==
    IF RootEnd(platform, str) >= 2 THEN SubSeq(str, 1, 2) ELSE <<>>

\* path.normalize
Normalize(platform, str) ==
    LET norm[x \in Seq(STRING)] ==
            IF Len(x) = 0 THEN <<".">>
            ELSE
                LET abs == IsAbsolute(platform, x)
                    rest == SubSeq(x, RootEnd(platform, x) + 1, Len(x))
                    body == JoinSegs(NormalizeSegs(Split(platform, rest), ~abs),
                                     Sep(platform))
                    tail0 == IF Len(body) = 0 /\ ~abs THEN <<".">> ELSE body
                    tail == IF Len(body) > 0 /\ IsSep(platform, x[Len(x)])
                            THEN tail0 \o <<Sep(platform)>> ELSE tail0
                IN  Device(platform, x) \o (IF abs THEN <<Sep(platform)>> ELSE <<>>) \o tail
    IN  norm[str]

\* the non-empty arguments joined by the separator
JoinArgs(args, sep) == JoinSegs(SelectSeq(args, LAMBDA a : Len(a) > 0), sep)

\* path.join without the validation: an argument that is no string is skipped
PathJoinLenient(platform, args) ==
    [error |-> "none",
     value |-> Normalize(platform,
                   JoinArgs(SelectSeq(args, LAMBDA a : a # Undefined), Sep(platform)))]

\* path.join that converts its arguments to strings: undefined is "undefined"
PathJoinCoerces(platform, args) ==
    [error |-> "none",
     value |-> Normalize(platform,
                   JoinArgs([i \in 1..Len(args) |->
                                IF args[i] = Undefined
                                THEN <<"u", "n", "d", "e", "f", "i", "n", "e", "d">>
                                ELSE args[i]],
                            Sep(platform)))]

\* path.join(...args)
PathJoin(platform, args) ==
    IF \E i \in 1..Len(args) : args[i] = Undefined
    THEN [error |-> "TypeError", value |-> Undefined]
    ELSE [error |-> "none", value |-> Normalize(platform, JoinArgs(args, Sep(platform)))]

(***************************************************************************)
(* The filesystem: a function from the absolute, normalized path of every  *)
(* entry that exists to [kind, content].  Hard links, symbolic links and   *)
(* case folding are not modelled.                                           *)
(***************************************************************************)
StripTrailingSep(platform, str) ==
    IF Len(str) > RootEnd(platform, str) /\ IsSep(platform, str[Len(str)])
    THEN SubSeq(str, 1, Len(str) - 1) ELSE str

\* the entry a path names for a process whose working directory is dir
FsKey(platform, dir, str) ==
    StripTrailingSep(platform,
        Normalize(platform,
            IF IsAbsolute(platform, str) THEN str
            ELSE dir \o <<Sep(platform)>> \o str))

\* the directory holding the entry key
Parent(platform, key) ==
    StripTrailingSep(platform, Normalize(platform, key \o <<Sep(platform)>> \o <<".", ".">>))

File(content) == [kind |-> "file", content |-> content]
Dir == [kind |-> "dir", content |-> "-"]

\* the filesystem fsys with the entry at key set to entry
WithEntry(fsys, key, entry) ==
    [k \in DOMAIN fsys \cup {key} |-> IF k = key THEN entry ELSE fsys[k]]

\* the filesystem fsys without the entry at key
WithoutEntry(fsys, key) == [k \in DOMAIN fsys \ {key} |-> fsys[k]]

\* a path holding a NUL character is rejected before the system call
HasNul(str) == \E i \in 1..Len(str) : str[i] = Chr(0)

\* the error fs.rename(src, dst) ends with, "none" for success; fault is the
\* error the volume reports for an otherwise possible move
RenameError(platform, dir, fsys, src, dst, fault) ==
    LET sk == FsKey(platform, dir, src)
        dk == FsKey(platform, dir, dst)
    IN  IF HasNul(src) \/ HasNul(dst) THEN "ERR_INVALID_ARG_VALUE"
        ELSE IF sk \notin DOMAIN fsys THEN "ENOENT"
        ELSE IF Parent(platform, dk) \notin DOMAIN fsys THEN "ENOENT"
        ELSE IF fsys[Parent(platform, dk)].kind # "dir" THEN "ENOTDIR"
        ELSE IF fsys[sk].kind = "file" /\ Len(dst) > 0 /\ IsSep(platform, dst[Len(dst)])
            THEN "ENOTDIR"
        ELSE IF dk \in DOMAIN fsys /\ fsys[dk].kind = "dir" /\ fsys[sk].kind = "file"
            THEN "EISDIR"
        ELSE fault

\* rename as copy: the source entry stays
RenameAsCopy(platform, dir, fsys, src, dst, fault) ==
    IF RenameError(platform, dir, fsys, src, dst, fault) # "none" THEN fsys
    ELSE WithEntry(fsys, FsKey(platform, dir, dst), fsys[FsKey(platform, dir, src)])

\* rename that first creates the destination's directory
RenameMkdirFirst(platform, dir, fsys, src, dst, fault) ==
    LET made == WithEntry(fsys, Parent(platform, FsKey(platform, dir, dst)), Dir)
    IN  IF RenameError(platform, dir, made, src, dst, fault) # "none" THEN made
        ELSE WithEntry(WithoutEntry(made, FsKey(platform, dir, src)),
                       FsKey(platform, dir, dst), made[FsKey(platform, dir, src)])

\* the filesystem after fs.rename(src, dst): unchanged on an error, else the
\* source entry is at the destination and no longer at the source
Rename(platform, dir, fsys, src, dst, fault) ==
    LET sk == FsKey(platform, dir, src)
        dk == FsKey(platform, dir, dst)
    IN  IF RenameError(platform, dir, fsys, src, dst, fault) # "none" THEN fsys
        ELSE IF sk = dk THEN fsys
        ELSE WithEntry(WithoutEntry(fsys, sk), dk, fsys[sk])

(***************************************************************************)
(* The environment of a run.                                                *)
(***************************************************************************)
WinAppData == <<"C", ":", "\\", "U", "s", "e", "r", "s", "\\", "u", "\\", "A", "p", "p", "D", "a", "t", "a", "\\", "R", "o", "a", "m", "i", "n", "g">>
PosixAppData == <<"/", "h", "o", "m", "e", "/", "u", "/", ".", "c", "o", "n", "f", "i", "g">>
WinCwd == <<"C", ":", "\\", "s", "t", "a", "g", "e">>
WinCwdAlt == <<"D", ":", "\\", "t", "m", "p">>
PosixCwd == <<"/", "o", "p", "t", "/", "s", "t", "a", "g", "e">>
PosixCwdAlt == <<"/", "t", "m", "p">>

Platforms == {"win32", "posix"}

\* process.env.APPDATA: absent, empty, a directory, a directory written with
\* a trailing separator
AppDataValues(p) ==
    LET base == IF p = "win32" THEN WinAppData ELSE PosixAppData
    IN  {Undefined, <<>>, base, base \o <<Sep(p)>>}

\* process.cwd()
CwdValues(p) == IF p = "win32" THEN {WinCwd, WinCwdAlt} ELSE {PosixCwd, PosixCwdAlt}

\* what the staged file holds, "absent" when it is not there
SourceStates == {"absent", "payload-1", "payload-2"}

\* what is at the destination before the run
DestinationStates == {"absent", "file", "dir"}

\* the errors a volume reports for a move that is otherwise possible
RenameFaults == {"none", "EACCES", "EXDEV"}

\* how child_process.spawn ends: the process runs; spawn throws; spawn
\* returns a handle and reports the error on a later tick
SpawnOutcomes == {"started", "throws", "fails_later"}

\* the Startup directory of the user, as an entry of the filesystem
StartupDirKey(p, dir, appdata) ==
    FsKey(p, dir, JoinSegs((IF appdata \in {Undefined, <<>>} THEN <<>> ELSE <<appdata>>)
                               \o FixedSegments, Sep(p)))

EmptyFs == [k \in {} |-> Dir]

\* the filesystem before the run
InitialFs(p, dir, gone, appdata, src, startup, dst) ==
    LET f1 == IF gone THEN EmptyFs
              ELSE WithEntry(WithEntry(EmptyFs, FsKey(p, dir, dir), Dir),
                             FsKey(p, dir, dir \o <<"/", "m", "a", "i", "n">>), Dir)
        f2 == IF gone \/ src = "absent" THEN f1
              ELSE WithEntry(f1, FsKey(p, dir, dir \o SourceSuffix), File(src))
        sd == StartupDirKey(p, dir, appdata)
        f3 == IF startup THEN WithEntry(f2, sd, Dir) ELSE f2
        dk == FsKey(p, dir, sd \o <<Sep(p)>> \o Utf8ToString(Base64Decode(EmbeddedIdentifier)))
    IN  IF ~startup \/ dst = "absent" THEN f3
        ELSE IF dst = "dir" THEN WithEntry(f3, dk, Dir)
        ELSE WithEntry(f3, dk, File("old"))

(***************************************************************************)
(* The state of a run.                                                      *)
(***************************************************************************)
VARIABLES
    platform,       \* process.platform, which selects path.win32 or path.posix
    env,            \* process.env
    cwd,            \* process.cwd()
    cwdGone,        \* the working directory was removed: process.cwd() throws
    ident,          \* the parameter _ of the IIFE
    fs0,            \* the filesystem before the run
    fs,             \* the filesystem
    s,              \* var s
    name,           \* Buffer.from(_, "base64").toString("utf-8")
    t,              \* var t
    pc,             \* the statement the IIFE is at
    renameOp,       \* the fs.rename call: status, arguments, error
    spawnCalls,     \* the spawn calls made: file, args, options
    child,          \* the spawned process and its handle
    pendingEvents,  \* events queued for the parent's next turn
    caught,         \* the error the catch clause received
    exitCode,       \* <<>> while the process runs, then <<code>>
    stderr          \* the diagnostics written

envVars == <<platform, env, cwd, cwdGone, ident, fs0>>
vars == <<platform, env, cwd, cwdGone, ident, fs0, fs, s, name, t, pc, renameOp,
          spawnCalls, child, pendingEvents, caught, exitCode, stderr>>

NoRename == [status |-> "none", src |-> Undefined, dst |-> Undefined, error |-> "none"]
NoChild == [state |-> "none", refd |-> FALSE, detached |-> FALSE, stdio |-> "none"]

\* everything but the environment, before the first statement
InitRun ==
    /\ s = Undefined
    /\ name = Undefined
    /\ t = Undefined
    /\ pc = "resolve_s"
    /\ renameOp = NoRename
    /\ spawnCalls = <<>>
    /\ child = NoChild
    /\ pendingEvents = {}
    /\ caught = "none"
    /\ exitCode = <<>>
    /\ stderr = <<>>

Init ==
    /\ platform \in Platforms
    /\ env \in {[APPDATA |-> a] : a \in AppDataValues(platform)}
    /\ cwd \in CwdValues(platform)
    /\ cwdGone \in (IF platform = "posix" THEN BOOLEAN ELSE {FALSE})
    /\ ident = EmbeddedIdentifier
    /\ \E src \in SourceStates, startup \in BOOLEAN, dst \in DestinationStates :
          fs0 = InitialFs(platform, cwd, cwdGone, env.APPDATA, src, startup, dst)
    /\ fs = fs0
    /\ InitRun

(***************************************************************************)
(* The statements of the IIFE, src/index.js:91-360.                         *)
(***************************************************************************)
\* catch (e) { rethrow; }
CatchRethrow(e) == [rethrown |-> TRUE, logged |-> <<>>]

\* catch (e) { return; }: nothing is rethrown and nothing is written
CatchHandler(e) == [rethrown |-> FALSE, logged |-> <<>>]

\* an error thrown inside the try block: the catch clause runs and returns,
\* the async function ends and, nothing being pending, so does the process.
\* An error leaving the function would be an unhandled rejection: the runtime
\* prints it and exits with code 1.
Throw(e) ==
    /\ caught' = e
    /\ pc' = "returned"
    /\ stderr' = stderr \o CatchHandler(e).logged
                        \o (IF CatchHandler(e).rethrown THEN <<e>> ELSE <<>>)
    /\ exitCode' = IF CatchHandler(e).rethrown THEN <<1>> ELSE <<0>>

\* path.join(process.env.APPDATA, "Microsoft", "Windows", "Start Menu",
\* "Programs", "Startup"): the arguments
ResolveStartupArgsFour(appdata) == <<appdata, Microsoft, Windows, StartMenu, Startup>>

ResolveStartupArgs(appdata) == <<appdata, Microsoft, Windows, StartMenu, Programs, Startup>>

\* var s = path.join(process.env.APPDATA, ...)
ResolveStartup ==
    /\ pc = "resolve_s"
    /\ LET r == PathJoin(platform, ResolveStartupArgs(env.APPDATA))
       IN  IF r.error # "none"
           THEN Throw(r.error) /\ UNCHANGED s
           ELSE /\ s' = r.value
                /\ pc' = "decode"
                /\ UNCHANGED <<caught, exitCode, stderr>>
    /\ UNCHANGED <<envVars, fs, name, t, renameOp, spawnCalls, child, pendingEvents>>

\* Buffer.from(_, "base64").toString("utf-8")
Decode ==
    /\ pc = "decode"
    /\ LET b == BufferFromBase64(ident)
       IN  IF b.error # "none"
           THEN Throw(b.error) /\ UNCHANGED name
           ELSE /\ name' = Utf8ToString(b.bytes)
                /\ pc' = "join_t"
                /\ UNCHANGED <<caught, exitCode, stderr>>
    /\ UNCHANGED <<envVars, fs, s, t, renameOp, spawnCalls, child, pendingEvents>>

\* t = path.join(s, <the decoded name>)
JoinDestination ==
    /\ pc = "join_t"
    /\ LET r == PathJoin(platform, <<s, name>>)
       IN  IF r.error # "none"
           THEN Throw(r.error) /\ UNCHANGED t
           ELSE /\ t' = r.value
                /\ pc' = "rename"
                /\ UNCHANGED <<caught, exitCode, stderr>>
    /\ UNCHANGED <<envVars, fs, s, name, renameOp, spawnCalls, child, pendingEvents>>

\* fs.rename(`${process.cwd()}/main/payload.node`, t) is called and awaited
RenameIssue ==
    /\ pc = "rename"
    /\ IF cwdGone
       THEN Throw("CwdError") /\ UNCHANGED renameOp
       ELSE /\ renameOp' = [status |-> "pending", src |-> cwd \o SourceSuffix,
                            dst |-> t, error |-> "none"]
            /\ pc' = "await"
            /\ UNCHANGED <<caught, exitCode, stderr>>
    /\ UNCHANGED <<envVars, fs, s, name, t, spawnCalls, child, pendingEvents>>

\* the thread pool performs the move, or fails
RenamePerform ==
    /\ renameOp.status = "pending"
    /\ \E fault \in RenameFaults :
          LET err == RenameError(platform, cwd, fs, renameOp.src, renameOp.dst, fault)
          IN  /\ fs' = Rename(platform, cwd, fs, renameOp.src, renameOp.dst, fault)
              /\ renameOp' = [renameOp EXCEPT
                                 !.status = IF err = "none" THEN "done" ELSE "failed",
                                 !.error = err]
    /\ UNCHANGED <<envVars, s, name, t, pc, spawnCalls, child, pendingEvents,
                   caught, exitCode, stderr>>

\* a failed move is tried again
RenameResumeRetry ==
    /\ pc = "await"
    /\ renameOp.status \in {"done", "failed"}
    /\ pc' = IF renameOp.status = "failed" THEN "rename" ELSE "spawn"
    /\ UNCHANGED <<envVars, fs, s, name, t, renameOp, spawnCalls, child, pendingEvents,
                   caught, exitCode, stderr>>

\* the promise is not awaited: the IIFE goes on whether the move failed or not
RenameResumeUnawaited ==
    /\ pc = "await"
    /\ renameOp.status \in {"done", "failed"}
    /\ pc' = "spawn"
    /\ UNCHANGED <<envVars, fs, s, name, t, renameOp, spawnCalls, child, pendingEvents,
                   caught, exitCode, stderr>>

\* the promise settles and the IIFE resumes: after the await, or in the catch
RenameResume ==
    /\ pc = "await"
    /\ renameOp.status \in {"done", "failed"}
    /\ IF renameOp.status = "failed"
       THEN Throw("RelocationIOError")
       ELSE pc' = "spawn" /\ UNCHANGED <<caught, exitCode, stderr>>
    /\ UNCHANGED <<envVars, fs, s, name, t, renameOp, spawnCalls, child, pendingEvents>>

\* { detached: true, stdio: "ignore" }
SpawnOptionsAttached == [detached |-> FALSE, stdio |-> "ignore"]

SpawnOptions == [detached |-> TRUE, stdio |-> "ignore"]

\* a spawn that throws is followed by moving the file back
LaunchRollsBack ==
    /\ pc = "spawn"
    /\ spawnCalls' = Append(spawnCalls, [file |-> t, args |-> <<>>, options |-> SpawnOptions])
    /\ \E outcome \in SpawnOutcomes :
          IF outcome = "throws"
          THEN /\ Throw("LaunchError")
               /\ fs' = Rename(platform, cwd, fs, t, cwd \o SourceSuffix, "none")
               /\ UNCHANGED <<child, pendingEvents>>
          ELSE /\ child' = [state |-> IF outcome = "started" THEN "running" ELSE "failed",
                            refd |-> FALSE,
                            detached |-> SpawnOptions.detached,
                            stdio |-> SpawnOptions.stdio]
               /\ pendingEvents' = IF outcome = "fails_later" THEN {"error"} ELSE {}
               /\ pc' = "exit"
               /\ UNCHANGED <<fs, caught, exitCode, stderr>>
    /\ UNCHANGED <<envVars, s, name, t, renameOp>>

\* the path is derived again at the launch, from s and the identifier as it
\* is embedded
LaunchRederived ==
    /\ pc = "spawn"
    /\ spawnCalls' = Append(spawnCalls, [file |-> PathJoin(platform, <<s, ident>>).value,
                                         args |-> <<>>, options |-> SpawnOptions])
    /\ \E outcome \in SpawnOutcomes :
          IF outcome = "throws"
          THEN Throw("LaunchError") /\ UNCHANGED <<child, pendingEvents>>
          ELSE /\ child' = [state |-> IF outcome = "started" THEN "running" ELSE "failed",
                            refd |-> FALSE,
                            detached |-> SpawnOptions.detached,
                            stdio |-> SpawnOptions.stdio]
               /\ pendingEvents' = IF outcome = "fails_later" THEN {"error"} ELSE {}
               /\ pc' = "exit"
               /\ UNCHANGED <<caught, exitCode, stderr>>
    /\ UNCHANGED <<envVars, fs, s, name, t, renameOp>>

\* spawn(t, [], { detached: true, stdio: "ignore" }).unref()
Launch ==
    /\ pc = "spawn"
    /\ spawnCalls' = Append(spawnCalls, [file |-> t, args |-> <<>>, options |-> SpawnOptions])
    /\ \E outcome \in SpawnOutcomes :
          IF outcome = "throws"
          THEN Throw("LaunchError") /\ UNCHANGED <<child, pendingEvents>>
          ELSE /\ child' = [state |-> IF outcome = "started" THEN "running" ELSE "failed",
                            refd |-> FALSE,
                            detached |-> SpawnOptions.detached,
                            stdio |-> SpawnOptions.stdio]
               /\ pendingEvents' = IF outcome = "fails_later" THEN {"error"} ELSE {}
               /\ pc' = "exit"
               /\ UNCHANGED <<caught, exitCode, stderr>>
    /\ UNCHANGED <<envVars, fs, s, name, t, renameOp>>

\* whether a running child outlives its parent (on Windows only a detached one)
SurvivesParentExit(p, c) == p # "win32" \/ c.detached

\* the parent ends once its child has: no process.exit(), a referenced handle
TerminateAfterChild ==
    /\ pc = "exit"
    /\ child.state # "running"
    /\ pc' = "exited"
    /\ exitCode' = <<0>>
    /\ pendingEvents' = {}
    /\ UNCHANGED <<envVars, fs, s, name, t, renameOp, spawnCalls, child, caught, stderr>>

\* no process.exit(): the process ends as the event loop drains, so a queued
\* "error" event is dispatched first; the child handle has no listener for it,
\* the event becomes an uncaught exception: it is printed and the code is 1
TerminateAfterDispatch ==
    /\ pc = "exit"
    /\ pc' = "exited"
    /\ stderr' = stderr \o (IF "error" \in pendingEvents THEN <<"LaunchError">> ELSE <<>>)
    /\ exitCode' = IF "error" \in pendingEvents THEN <<1>> ELSE <<0>>
    /\ pendingEvents' = {}
    /\ child' = IF child.state = "running" /\ ~SurvivesParentExit(platform, child)
                THEN [child EXCEPT !.state = "killed"] ELSE child
    /\ UNCHANGED <<envVars, fs, s, name, t, renameOp, spawnCalls, caught>>

\* process.exit(): the process ends at once with the default code; queued
\* events are never dispatched
Terminate ==
    /\ pc = "exit"
    /\ pc' = "exited"
    /\ exitCode' = <<0>>
    /\ pendingEvents' = {}
    /\ child' = IF child.state = "running" /\ ~SurvivesParentExit(platform, child)
                THEN [child EXCEPT !.state = "killed"] ELSE child
    /\ UNCHANGED <<envVars, fs, s, name, t, renameOp, spawnCalls, caught, stderr>>

\* the spawned program ends on its own
ChildExit ==
    /\ child.state = "running"
    /\ child' = [child EXCEPT !.state = "exited"]
    /\ UNCHANGED <<envVars, fs, s, name, t, pc, renameOp, spawnCalls, pendingEvents,
                   caught, exitCode, stderr>>

Next ==
    \/ ResolveStartup
    \/ Decode
    \/ JoinDestination
    \/ RenameIssue
    \/ RenamePerform
    \/ RenameResume
    \/ Launch
    \/ Terminate
    \/ ChildExit

Spec == Init /\ [][Next]_vars

\* the state of the run in the terms of the specification's state machine: a
\* state is entered when the value it is named after exists (DECODED: the
\* decoded name, PATH_RESOLVED: t); s is computed in START, before the decoding
State ==
    CASE pc \in {"resolve_s", "decode"} -> "START"
      [] pc = "join_t" -> "DECODED"
      [] pc \in {"rename", "await"} -> "PATH_RESOLVED"
      [] pc = "spawn" -> "RELOCATED"
      [] pc = "exit" -> "LAUNCHED"
      [] pc = "exited" -> "TERMINATED"
      [] pc = "returned" -> "ABORTED"

(***************************************************************************)
(* Runs with an identifier other than the embedded one, well formed or not. *)
(***************************************************************************)
\* two characters of the alphabet, the padding character, one outside both
DecodeAlphabet == {"R", "w", "=", "$"}

Identifiers == UNION {[1..k -> DecodeAlphabet] : k \in 0..MaxIdLen}

InitDecode ==
    /\ platform \in Platforms
    /\ env = [APPDATA |-> IF platform = "win32" THEN WinAppData ELSE PosixAppData]
    /\ cwd = (IF platform = "win32" THEN WinCwd ELSE PosixCwd)
    /\ cwdGone = FALSE
    /\ ident \in Identifiers \cup {EmbeddedIdentifier}
    /\ \E src \in {"absent", "payload-1"} :
          fs0 = InitialFs(platform, cwd, cwdGone, env.APPDATA, src, TRUE, "absent")
    /\ fs = fs0
    /\ InitRun

SpecDecode == InitDecode /\ [][Next]_vars

(***************************************************************************)
(* Scheduling: the event loop runs every statement of the IIFE that is      *)
(* ready.  Nothing makes the thread pool finish the move, or the child end. *)
(***************************************************************************)
\* a statement of the IIFE; at most one is ready at a time
IIFEStep ==
    \/ ResolveStartup
    \/ Decode
    \/ JoinDestination
    \/ RenameIssue
    \/ RenameResume
    \/ Launch
    \/ Terminate

LiveSpec == Spec /\ WF_vars(IIFEStep)

(***************************************************************************)
(* Properties.                                                              *)
(***************************************************************************)
SourcePath == cwd \o SourceSuffix
SourceKey == FsKey(platform, cwd, SourcePath)
DestinationKey == FsKey(platform, cwd, t)
ErrorKinds == {"TypeError", "DecodeError", "CwdError", "RelocationIOError", "LaunchError"}

\* C1: whatever step raises an error, the error is caught and discarded:
\* nothing is ever written, the run that caught an error has ended, and a
\* run that has ended, failed or not, has exit code 0.
C1_SilentFailure ==
    /\ stderr = <<>>
    /\ exitCode \in {<<>>, <<0>>}
    /\ caught \in ErrorKinds \cup {"none"}
    /\ (caught # "none" <=> pc = "returned")
    /\ (pc \in {"returned", "exited"} <=> exitCode = <<0>>)

C1_Witness ==
    /\ pc = "returned"
    /\ caught = "RelocationIOError"
    /\ renameOp.error = "ENOENT"
    /\ exitCode = <<0>>

\* C2: once the move has succeeded, in every later state the source path does
\* not exist and the destination holds what the source held before the run.
C2_MoveNotCopy ==
    renameOp.status = "done" =>
        /\ SourceKey \notin DOMAIN fs
        /\ SourceKey \in DOMAIN fs0
        /\ DestinationKey \in DOMAIN fs
        /\ fs[DestinationKey] = fs0[SourceKey]

C2_Witness ==
    /\ renameOp.status = "done"
    /\ pc = "exited"
    /\ DestinationKey \in DOMAIN fs0

\* C3: when the move fails, the filesystem is the one before the run (nothing
\* created, nothing removed), and the run ends with exit code 0.
C3_FailedMoveChangesNothing ==
    /\ (renameOp.status = "failed" => fs = fs0 /\ pc \in {"await", "returned"})
    /\ (caught = "RelocationIOError" =>
            /\ renameOp.status = "failed"
            /\ pc = "returned"
            /\ exitCode = <<0>>)

C3_Witness ==
    /\ caught = "RelocationIOError"
    /\ exitCode = <<0>>
    /\ SourceKey \in DOMAIN fs
    /\ Parent(platform, DestinationKey) \notin DOMAIN fs

\* the segments of the base directory as the environment gives it
BaseSegments == Split(platform, StripTrailingSep(platform, env.APPDATA))

\* segs without its k-th element
Without(segs, k) == SubSeq(segs, 1, k - 1) \o SubSeq(segs, k + 1, Len(segs))

\* C4 as stated: the destination path is the base directory, four fixed
\* segments and the name.
C4_FourSegments ==
    (t # Undefined /\ env.APPDATA # <<>>) =>
        \E k \in 1..Len(FixedSegments) :
            t = JoinSegs(BaseSegments \o Without(FixedSegments, k) \o <<name>>,
                         Sep(platform))

\* C4, amended: for a non-empty base directory, the destination path is the
\* segments of the base directory, then the five fixed segments Microsoft,
\* Windows, Start Menu, Programs, Startup, then the name, in that order,
\* separated by the platform's separator.
C4_FiveSegments ==
    (t # Undefined /\ env.APPDATA # <<>>) =>
        /\ Len(FixedSegments) = 5
        /\ t = JoinSegs(BaseSegments \o FixedSegments \o <<name>>, Sep(platform))
        /\ Split(platform, t) = BaseSegments \o FixedSegments \o <<name>>

C4_Witness ==
    /\ t # Undefined
    /\ env.APPDATA # <<>>
    /\ env.APPDATA[Len(env.APPDATA)] = Sep(platform)

\* C5 as stated: with the base directory missing or empty, path resolution
\* raises no error, yields a path and the run goes on to the move.
C5_NeverRaises ==
    env.APPDATA \in {Undefined, <<>>} =>
        /\ caught # "TypeError"
        /\ (pc # "resolve_s" => s # Undefined)

\* C5, amended: with the base directory the empty string, path resolution
\* raises no error, the destination is the fixed segments and the name with no
\* base, and the move is attempted with it; with the variable absent,
\* path.join throws a TypeError and the run aborts with nothing resolved and
\* no move attempted.
C5_EmptyProceedsAbsentAborts ==
    /\ (env.APPDATA = <<>> /\ pc # "resolve_s") =>
            /\ caught # "TypeError"
            /\ s = JoinSegs(FixedSegments, Sep(platform))
            /\ (pc \notin {"decode", "join_t"} =>
                    t = JoinSegs(FixedSegments \o <<name>>, Sep(platform)))
            /\ (pc \notin {"decode", "join_t", "rename"} /\ ~cwdGone =>
                    renameOp.status # "none" /\ renameOp.dst = t)
    /\ (env.APPDATA = Undefined /\ pc # "resolve_s") =>
            /\ pc = "returned"
            /\ caught = "TypeError"
            /\ s = Undefined /\ name = Undefined /\ t = Undefined
            /\ renameOp = NoRename
            /\ fs = fs0

C5_Witness ==
    /\ env.APPDATA = <<>>
    /\ renameOp.status = "done"
    /\ ~IsAbsolute(platform, renameOp.dst)

\* C6: once the spawn is issued the parent can end at once, whatever the child
\* does; its ending changes nothing of the child, which may be running then;
\* and the parent, once ended, stays ended whatever the child does.
C6_LaunchIndependence ==
    /\ [](pc = "exit" => ENABLED Terminate)
    /\ [][(pc = "exit" /\ pc' # pc) => (pc' = "exited" /\ child' = child)]_vars
    /\ [][pc = "exited" => (pc' = "exited" /\ exitCode' = exitCode)]_vars

C6_Witness ==
    /\ pc = "exited"
    /\ child.state = "running"
    /\ platform = "win32"

\* the valid characters of src before its first "="
Cleaned(src) == SelectSeq(SubSeq(src, 1,
                     IF \E i \in 1..Len(src) : src[i] = "="
                     THEN (CHOOSE i \in 1..Len(src) :
                              src[i] = "=" /\ \A j \in 1..(i - 1) : src[j] # "=") - 1
                     ELSE Len(src)),
                 LAMBDA c : unbase64(c) >= 0)

\* C7 as stated: an identifier that is not valid base64 makes the decode step
\* fail with a DecodeError and the run abort, no name being produced.
C7_MalformedFails ==
    (~WellFormedBase64(ident) /\ pc \notin {"resolve_s", "decode"}) =>
        /\ pc = "returned"
        /\ caught = "DecodeError"
        /\ name = Undefined

\* C7, amended: the decode step never fails: no DecodeError is ever caught,
\* and for any identifier, well formed or not, the run goes on with the name
\* decoded from the identifier's valid characters before its first "=", the
\* other characters being skipped.
C7_MalformedDecodesLeniently ==
    /\ caught # "DecodeError"
    /\ (pc \notin {"resolve_s", "decode"} =>
            /\ name # Undefined
            /\ name = Utf8ToString(Base64Decode(Cleaned(ident)))
            /\ Len(name) <= (3 * Len(Cleaned(ident))) \div 4)

C7_Witness ==
    /\ ~WellFormedBase64(ident)
    /\ Cleaned(ident) # ident
    /\ Len(name) > 0
    /\ name # Undefined
    /\ renameOp.status = "done"

\* C8: every run ends, with exit code 0, unless the move never completes, and
\* then it waits at the awaited move for ever.
C8_EndsUnlessMoveHangs ==
    /\ \/ <>(pc \in {"exited", "returned"} /\ exitCode = <<0>>)
       \/ <>[](pc = "await" /\ renameOp.status = "pending")
    /\ [](exitCode # <<>> => exitCode = <<0>>)

C8_Witness ==
    /\ pc = "exited"
    /\ exitCode = <<0>>
    /\ child.state = "running"

\* "Discord.exe"
DiscordExe == <<"D", "i", "s", "c", "o", "r", "d", ".", "e", "x", "e">>

\* C9: in every run, whatever its platform, working directory, environment
\* and filesystem, the embedded identifier decodes to the one name
\* Discord.exe, and the destination path is that name in the directory s,
\* which the base directory alone decides.
C9_DecodeDeterministic ==
    /\ ident = EmbeddedIdentifier
    /\ (pc \notin {"resolve_s", "decode"} /\ caught # "TypeError" => name = DiscordExe)
    /\ (name # Undefined => name = DiscordExe)
    /\ (s # Undefined => s = PathJoin(platform, <<env.APPDATA>> \o FixedSegments).value)
    /\ (t # Undefined => t = s \o <<Sep(platform)>> \o DiscordExe)

C9_Witness ==
    /\ name = DiscordExe
    /\ t # Undefined
    /\ cwd \in {WinCwdAlt, PosixCwdAlt}
    /\ fs # fs0

Order == <<"START", "DECODED", "PATH_RESOLVED", "RELOCATED", "LAUNCHED", "TERMINATED">>

\* the place of a statement in the text of the IIFE
Rank(l) ==
    CASE l = "resolve_s" -> 1
      [] l = "decode" -> 2
      [] l = "join_t" -> 3
      [] l = "rename" -> 4
      [] l = "await" -> 5
      [] l = "spawn" -> 6
      [] l = "exit" -> 7
      [] l = "exited" -> 8
      [] l = "returned" -> 8

\* C10: the state changes only to the next state of START, DECODED,
\* PATH_RESOLVED, RELOCATED, LAUNCHED, TERMINATED, or to ABORTED as an error
\* is caught; no statement runs twice, and TERMINATED and ABORTED are final.
C10_LinearSinglePass ==
    /\ [][State' # State =>
            \/ \E i \in 1..5 : State = Order[i] /\ State' = Order[i + 1]
            \/ /\ State' = "ABORTED"
               /\ State \notin {"TERMINATED", "ABORTED"}
               /\ caught = "none" /\ caught' # "none"]_vars
    /\ [][pc' # pc => Rank(pc') > Rank(pc)]_vars
    /\ [](Len(spawnCalls) <= 1)

C10_Witness ==
    /\ pc = "exited"
    /\ State = "TERMINATED"
    /\ renameOp.status = "done"
    /\ Len(spawnCalls) = 1

\* C11: spawn is called only in a state where the move has completed without
\* error, so a run whose move failed, or was never issued, has no spawn call
\* and no child, then and ever after; a failed move ends the run in the catch.
C11_NoLaunchWithoutRelocation ==
    /\ [][spawnCalls' # spawnCalls =>
            /\ renameOp.status = "done" /\ renameOp.error = "none"
            /\ fs # fs0 /\ DestinationKey \in DOMAIN fs]_vars
    /\ [](renameOp.status # "done" => spawnCalls = <<>> /\ child = NoChild)
    /\ [](renameOp.status = "failed" => pc \in {"await", "returned"})
    /\ [](pc \in {"spawn", "exit", "exited"} => renameOp.status = "done")

C11_Witness ==
    /\ pc = "returned"
    /\ renameOp.status = "failed"
    /\ renameOp.error = "EXDEV"
    /\ spawnCalls = <<>>
    /\ child = NoChild

\* C12: a launch failure is never visible.  A spawn that throws is caught:
\* the run returns with nothing written and exit code 0, no child and no
\* event queued.  A spawn that fails later queues an "error" event for the
\* child handle; the only step of the parent that follows the spawn is
\* process.exit(), always ready, which drops the event undispatched: nothing
\* is written and the exit code is 0.
C12_LaunchFailureSilent ==
    /\ [](caught = "LaunchError" =>
            /\ pc = "returned" /\ exitCode = <<0>> /\ stderr = <<>>
            /\ child = NoChild /\ pendingEvents = {})
    /\ [](child.state = "failed" =>
            /\ pc \in {"exit", "exited"} /\ stderr = <<>> /\ caught = "none"
            /\ (pc = "exit" => pendingEvents = {"error"} /\ exitCode = <<>>)
            /\ (pc = "exited" => pendingEvents = {} /\ exitCode = <<0>>))
    /\ [](pendingEvents # {} => pc = "exit" /\ ENABLED Terminate /\ ~ENABLED Launch)
    /\ [][pendingEvents # {} /\ pendingEvents' # pendingEvents =>
            /\ pc' = "exited" /\ pendingEvents' = {}
            /\ stderr' = stderr /\ exitCode' = <<0>>]_vars

C12_Witness ==
    /\ pc = "exited"
    /\ child.state = "failed"
    /\ pendingEvents = {}
    /\ exitCode = <<0>>
    /\ stderr = <<>>

\* C13: every spawn call is given the path t, the very destination of the
\* move, where the moved file is; t is assigned once and never changes
\* afterwards; the call has no arguments, and its options are detached with
\* the standard streams ignored, which the child handle, unreferenced, shows.
C13_LaunchesTheRelocatedPath ==
    /\ [](\A i \in 1..Len(spawnCalls) :
            /\ spawnCalls[i].file = t
            /\ spawnCalls[i].file = renameOp.dst
            /\ FsKey(platform, cwd, spawnCalls[i].file) \in DOMAIN fs
            /\ fs[FsKey(platform, cwd, spawnCalls[i].file)] = fs0[SourceKey]
            /\ spawnCalls[i].args = <<>>
            /\ spawnCalls[i].options = [detached |-> TRUE, stdio |-> "ignore"])
    /\ [](child # NoChild => child.detached /\ child.stdio = "ignore" /\ ~child.refd)
    /\ [][t # Undefined => t' = t]_vars
    /\ [][t' # t => pc = "join_t" /\ t' = PathJoin(platform, <<s, name>>).value]_vars

C13_Witness ==
    /\ Len(spawnCalls) = 1
    /\ spawnCalls[1].file = renameOp.dst
    /\ spawnCalls[1].args = <<>>
    /\ child.state = "running"
    /\ pc = "exit"

\* the filesystem before the run with the one move applied
Moved == WithEntry(WithoutEntry(fs0, SourceKey), DestinationKey, fs0[SourceKey])

\* the launch has failed: spawn threw, or the child could not be started
LaunchFailed == caught = "LaunchError" \/ child.state = "failed"

\* C14 as stated: the filesystem is the initial one or the initial one with
\* the move applied, and when the launch fails after the move the file stays
\* at the destination and the run, once ended, is ABORTED.
C14_LaunchFailureEndsAborted ==
    /\ (fs # fs0 => t # Undefined /\ SourceKey \in DOMAIN fs0 /\ fs = Moved)
    /\ (LaunchFailed =>
            /\ fs = Moved /\ DestinationKey \in DOMAIN fs /\ SourceKey \notin DOMAIN fs
            /\ (pc \in {"exited", "returned"} => State = "ABORTED"))

\* C14, amended: the filesystem is the initial one or the initial one with
\* the move applied; it changes at most once, as the pending move completes,
\* and nothing changes it once the move has settled; when the launch fails
\* after the move the file stays at the destination, and the run ends ABORTED
\* if spawn threw, TERMINATED if the failure was queued for later.
C14_SingleMoveNoRollback ==
    /\ [](fs # fs0 => t # Undefined /\ SourceKey \in DOMAIN fs0 /\ fs = Moved)
    /\ [][fs' # fs =>
            /\ fs = fs0
            /\ renameOp.status = "pending" /\ renameOp'.status = "done"]_vars
    /\ [][renameOp.status \in {"done", "failed"} => renameOp' = renameOp /\ fs' = fs]_vars
    /\ [](LaunchFailed =>
            /\ fs = Moved /\ DestinationKey \in DOMAIN fs /\ SourceKey \notin DOMAIN fs
            /\ (caught = "LaunchError" => State = "ABORTED")
            /\ (child.state = "failed" => State \in {"LAUNCHED", "TERMINATED"})
            /\ (pc \in {"exited", "returned"} => exitCode = <<0>>))
    /\ [][LaunchFailed /\ State = "LAUNCHED" /\ State' # State => State' = "TERMINATED"]_vars

C14_Witness ==
    /\ caught = "LaunchError"
    /\ State = "ABORTED"
    /\ fs # fs0
    /\ fs = Moved
    /\ Len(spawnCalls) = 1

\* C15: with the variable absent the only step the run takes is the failed
\* path.join: it ends ABORTED with a TypeError caught, exit code 0 and nothing
\* written, the identifier never decoded, no move issued, no spawn call, no
\* child, the filesystem as before the run.  With the empty string no
\* TypeError is raised and the move is issued, its destination the relative
\* path of the fixed segments and the decoded name, below the working
\* directory.
C15_AbsentAbortsEmptyRelocates ==
    /\ [](env.APPDATA = Undefined =>
            /\ pc \in {"resolve_s", "returned"}
            /\ s = Undefined /\ name = Undefined /\ t = Undefined
            /\ renameOp = NoRename /\ spawnCalls = <<>> /\ child = NoChild
            /\ fs = fs0 /\ stderr = <<>>
            /\ (pc = "returned" =>
                    State = "ABORTED" /\ caught = "TypeError" /\ exitCode = <<0>>))
    /\ [][env.APPDATA = Undefined /\ pc' # pc => pc = "resolve_s" /\ pc' = "returned"]_vars
    /\ [](renameOp.status # "none" => env.APPDATA # Undefined)
    /\ [](env.APPDATA = <<>> =>
            /\ caught # "TypeError"
            /\ (pc \in {"await", "spawn", "exit", "exited"} => renameOp.status # "none")
            /\ (renameOp.status # "none" =>
                    /\ renameOp.dst = JoinSegs(FixedSegments \o <<DiscordExe>>, Sep(platform))
                    /\ Split(platform, renameOp.dst)[1] = Microsoft
                    /\ ~IsAbsolute(platform, renameOp.dst)
                    /\ FsKey(platform, cwd, renameOp.dst)
                           = cwd \o <<Sep(platform)>> \o renameOp.dst))

C15_Witness ==
    /\ env.APPDATA = Undefined
    /\ pc = "returned"
    /\ caught = "TypeError"
    /\ exitCode = <<0>>
    /\ SourceKey \in DOMAIN fs
    /\ name = Undefined

=============================================================================
